---- MODULE Spec2Model ----
(***************************************************************************)
(* A model of the keystore and signing core of libdevcrypto:               *)
(*   - SecretStore (src/SecretStore.cpp): the directory-backed collection  *)
(*     of password-encrypted secrets with its decrypted cache;             *)
(*   - SecretStore::encrypt / decrypt: the key-file codec;                 *)
(*   - dev::sign and SignatureStruct::isValid (Common.cpp).                *)
(*                                                                         *)
(* Byte strings, hashes and ciphertexts are symbolic terms: every value is *)
(* a record whose field k names its constructor.  Keccak, PBKDF2 and AES   *)
(* are free constructors (collision-free hash, decryption succeeds only    *)
(* under the key and iv of the encryption).  Text produced by a formatter  *)
(* (hex, UUID text, JSON text) is a term of its own kind, distinct from    *)
(* the value it was formatted from, and is turned back only by its parser. *)
(***************************************************************************)
EXTENDS Integers, Sequences, FiniteSets, TLC

VARIABLES
    up,        \* TRUE while a SecretStore object exists (its constructor returned)
    keys,      \* m_keys  : uuid -> [json: encryptedJson text, path: backing path]
    cache,     \* m_cached: uuid -> secret bytes
    fs,        \* the file system: path -> file contents or NoFile
    last,      \* the operation that ran last, with its arguments and outcome
    imported,  \* history: uuid -> the secret and passphrase importSecret was given
    lenient,   \* whether the library's fromUUID returns the zero id for bad text
    codec,     \* the encrypt/decrypt run of CodecSpec
    sig        \* the sign run of SignSpec

vars == <<up, keys, cache, fs, last, imported, lenient, codec, sig>>

----------------------------------------------------------------------------
(* Bounds of the model.                                                    *)

\* number of uuids h128::random() hands out (importSecret calls per behaviour)
MaxUuids == 1
\* number of distinct non-empty secrets given to encrypt in CodecSpec
NumSecrets == 3
\* number of distinct salts, and of ivs, the random generator produces in CodecSpec
NumRandom == 2
\* number of distinct raw signatures is bounded by the group order, see c_secp256k1n

Passphrases == {"a", "b"}

----------------------------------------------------------------------------
(* Byte strings.                                                           *)

EmptyBytes == [k |-> "empty"]

Sec(n) == [k |-> "sec", n |-> n]

Secrets == {EmptyBytes} \cup {Sec(n) : n \in 1..NumSecrets}

Rnd(n) == [k |-> "rnd", n |-> n]

RandomBytes == {Rnd(n) : n \in 1..NumRandom}

\* the secrets importSecret is given in Spec: the empty one and a non-empty one
StoreSecrets == {EmptyBytes, Sec(1)}
\* the salt and iv encrypt draws in Spec (their value decides nothing there)
StoreRandom == {Rnd(1)}

\* the bytes a cipher yields when it decrypts under the wrong key or iv
Garbage == [k |-> "garbage"]

\* h128::random(): the uuids the store can draw; 0 is the zero hash h128()
UUIDs == 1..MaxUuids
ZeroUuid == 0
\* the id carried by a key file that some other client wrote
ForeignUuid == MaxUuids + 1

EmptyMap == [x \in {} |-> 0]

----------------------------------------------------------------------------
(* Text and JSON values.                                                   *)

\* a string literal of the program
Lit(s) == [k |-> "lit", lit |-> s]

\* toHex: the hex text of a byte string
toHex(b) == [k |-> "hex", hexOf |-> b]

\* fromHex: the bytes a hex text stands for (text that is no hex gives junk)
fromHex(t) == IF t.k = "hex" THEN t.hexOf ELSE Garbage

\* toUUID: the 8-4-4-4-12 text of a 16-byte id
toUUID(u) == [k |-> "uuid", uuidOf |-> u]

\* text that is no UUID
BadUuidText == Lit("not-a-uuid")

JNull == [k |-> "null"]
JInt(i) == [k |-> "int", int |-> i]
JStr(s) == [k |-> "str", str |-> s]
JObj(m) == [k |-> "obj", obj |-> m]
JArray == [k |-> "array"]

\* mObject::operator[]: a missing member reads as null
Member(o, name) == IF name \in DOMAIN o.obj THEN o.obj[name] ELSE JNull

\* js::write_string: the text of a value (pretty-printed or not)
write_string(v, pretty) == [k |-> "json", pretty |-> pretty, text |-> v]

\* text that is no JSON: the parser fails on it, having left the value it was
\* given untouched (partial = NoPartial) or holding what it had built so far
NoPartial == [k |-> "nopartial"]
BrokenText(partial) == [k |-> "broken", partial |-> partial]

\* js::read_string(text, v): the value v holds afterwards; old is what v held
\* before.  The callers ignore the returned success flag.
read_string(t, old) ==
    IF t.k = "json" THEN t.text
    ELSE IF t.partial = NoPartial THEN old
    ELSE t.partial

----------------------------------------------------------------------------
(* Cryptographic primitives, as free constructors.                         *)

pbkdf2(pass, salt, iterations, dklen) ==
    [k |-> "dk", pw |-> pass, salt |-> salt, rounds |-> iterations, len |-> dklen]

sha3(x) == [k |-> "sha3", hashed |-> x]

\* bytes + bytes
Concat(x, y) == [k |-> "cat", left |-> x, right |-> y]

\* bytesConstRef(&derivedKey).cropped(derivedKey.size() - 16): the last 16 bytes
Last16(dk) == IF dk.k = "dk" /\ dk.len = 16 THEN dk ELSE [k |-> "last16", whole |-> dk]

\* h128(x, h128::AlignRight): the rightmost 16 bytes of x
AlignRight128(x) ==
    IF x.k = "dk" /\ x.len = 16 THEN x ELSE [k |-> "right128", wide |-> x]

encryptSymNoAuth(key, iv, plain) ==
    [k |-> "aes", aesKey |-> key, aesIv |-> iv, plain |-> plain]

decryptSymNoAuth(key, iv, cipherText) ==
    IF cipherText.k = "aes" /\ cipherText.aesKey = key /\ cipherText.aesIv = iv
    THEN cipherText.plain
    ELSE Garbage

----------------------------------------------------------------------------
(* SecretStore::encrypt and SecretStore::decrypt.                          *)

Throw == [k |-> "throw"]

dklen == 16
iterations == 262144

\* the MAC over the last 16 bytes of the derived key and the ciphertext
MacOf(derivedKey, cipherText) == sha3(Concat(Last16(derivedKey), cipherText))

\* the AES key: the right 16 bytes of keccak(right-aligned derived key)
AesKeyOf(derivedKey) == AlignRight128(sha3(AlignRight128(derivedKey)))

\* encrypt as it would be with the recommended dklen of 32 written into
\* kdfparams while the key is still derived with 16
encrypt_dklen32(v, pass, salt, iv) ==
    LET derivedKey == pbkdf2(pass, salt, iterations, dklen)
        key == AesKeyOf(derivedKey)
        cipherText == encryptSymNoAuth(key, iv, v)
        mac == MacOf(derivedKey, cipherText)
        ret == [kdf |-> JStr(Lit("pbkdf2")),
                kdfparams |-> JObj([prf |-> JStr(Lit("hmac-sha256")),
                                    c |-> JInt(iterations),
                                    salt |-> JStr(toHex(salt)),
                                    dklen |-> JInt(32)]),
                cipher |-> JStr(Lit("aes-128-cbc")),
                cipherparams |-> JObj([iv |-> JStr(toHex(iv))]),
                ciphertext |-> JStr(toHex(cipherText)),
                mac |-> JStr(toHex(mac))]
    IN write_string(JObj(ret), TRUE)

\* encrypt(_v, _pass), with the salt and iv the random generator returned
encrypt(v, pass, salt, iv) ==
    LET derivedKey == pbkdf2(pass, salt, iterations, dklen)
        key == AesKeyOf(derivedKey)
        cipherText == encryptSymNoAuth(key, iv, v)
        mac == MacOf(derivedKey, cipherText)
        ret == [kdf |-> JStr(Lit("pbkdf2")),
                kdfparams |-> JObj([prf |-> JStr(Lit("hmac-sha256")),
                                    c |-> JInt(iterations),
                                    salt |-> JStr(toHex(salt)),
                                    dklen |-> JInt(dklen)]),
                cipher |-> JStr(Lit("aes-128-cbc")),
                cipherparams |-> JObj([iv |-> JStr(toHex(iv))]),
                ciphertext |-> JStr(toHex(cipherText)),
                mac |-> JStr(toHex(mac))]
    IN write_string(JObj(ret), TRUE)

\* the members decrypt reads with get_str / get_int / get_obj have that type
IsStr(v) == v.k = "str"
IsInt(v) == v.k = "int"
IsObj(v) == v.k = "obj"

\* decrypt as it would be without the comparison of the stored MAC with the
\* computed one
decrypt_noMacCheck(v, pass) ==
    LET ov == read_string(v, JNull)
        kdf == Member(ov, "kdf")
        params == Member(ov, "kdfparams")
        prf == Member(params, "prf")
        c == Member(params, "c")
        salt == Member(params, "salt")
        dkl == Member(params, "dklen")
        derivedKey == pbkdf2(pass, fromHex(salt.str), c.int, dkl.int)
        ct == Member(ov, "ciphertext")
        cipherText == fromHex(ct.str)
        macStr == Member(ov, "mac")
        mac == fromHex(macStr.str)
        macExp == MacOf(derivedKey, cipherText)
        cipher == Member(ov, "cipher")
        cparams == Member(ov, "cipherparams")
        ivStr == Member(cparams, "iv")
        key == AesKeyOf(derivedKey)
    IN  IF ~IsObj(ov) THEN Throw
        ELSE IF ~IsStr(kdf) THEN Throw
        ELSE IF kdf.str # Lit("pbkdf2") THEN EmptyBytes
        ELSE IF ~IsObj(params) THEN Throw
        ELSE IF ~IsStr(prf) THEN Throw
        ELSE IF prf.str # Lit("hmac-sha256") THEN EmptyBytes
        ELSE IF ~IsInt(c) \/ ~IsStr(salt) \/ ~IsInt(dkl) THEN Throw
        ELSE IF ~IsStr(ct) \/ ~IsStr(macStr) THEN Throw
        ELSE IF ~IsStr(cipher) THEN Throw
        ELSE IF cipher.str # Lit("aes-128-cbc") THEN EmptyBytes
        ELSE IF ~IsObj(cparams) \/ ~IsStr(ivStr) THEN Throw
        ELSE decryptSymNoAuth(key, fromHex(ivStr.str), cipherText)

\* decrypt(_v, _pass): the bytes returned, or Throw when a JSON accessor throws
decrypt(v, pass) ==
    LET ov == read_string(v, JNull)
        kdf == Member(ov, "kdf")
        params == Member(ov, "kdfparams")
        prf == Member(params, "prf")
        c == Member(params, "c")
        salt == Member(params, "salt")
        dkl == Member(params, "dklen")
        derivedKey == pbkdf2(pass, fromHex(salt.str), c.int, dkl.int)
        ct == Member(ov, "ciphertext")
        cipherText == fromHex(ct.str)
        macStr == Member(ov, "mac")
        mac == fromHex(macStr.str)
        macExp == MacOf(derivedKey, cipherText)
        cipher == Member(ov, "cipher")
        cparams == Member(ov, "cipherparams")
        ivStr == Member(cparams, "iv")
        key == AesKeyOf(derivedKey)
    IN  IF ~IsObj(ov) THEN Throw
        ELSE IF ~IsStr(kdf) THEN Throw
        ELSE IF kdf.str # Lit("pbkdf2") THEN EmptyBytes
        ELSE IF ~IsObj(params) THEN Throw
        ELSE IF ~IsStr(prf) THEN Throw
        ELSE IF prf.str # Lit("hmac-sha256") THEN EmptyBytes
        ELSE IF ~IsInt(c) \/ ~IsStr(salt) \/ ~IsInt(dkl) THEN Throw
        ELSE IF ~IsStr(ct) \/ ~IsStr(macStr) THEN Throw
        ELSE IF mac # macExp THEN EmptyBytes
        ELSE IF ~IsStr(cipher) THEN Throw
        ELSE IF cipher.str # Lit("aes-128-cbc") THEN EmptyBytes
        ELSE IF ~IsObj(cparams) \/ ~IsStr(ivStr) THEN Throw
        ELSE decryptSymNoAuth(key, fromHex(ivStr.str), cipherText)

----------------------------------------------------------------------------
(* The file system and the key files.                                      *)

\* getDataDir("web3") + "/keys", the default of save and load, and one other
DefaultDir == "keys"
Dirs == {DefaultDir, "other"}

\* std::string(): the backing path of an entry that was never saved
NoPath == [k |-> "nopath"]
Path(dir, name) == [k |-> "path", dir |-> dir, name |-> name]

\* the name of a file some other program put into the directory
ForeignName == Lit("x")

FileNames == {toUUID(u) : u \in UUIDs \cup {ZeroUuid, ForeignUuid}} \cup {ForeignName}
AllPaths == {Path(d, n) : d \in Dirs, n \in FileNames}

NoFile == [k |-> "nofile"]

\* the regular files of a directory
FilesIn(files, dir) == {p \in AllPaths : p.dir = dir /\ files[p] # NoFile}

\* the orders in which a set can be iterated
Orders(S) ==
    {o \in [1..Cardinality(S) -> S] : \A i, j \in DOMAIN o : i # j => o[i] # o[j]}

MapPut(m, x, v) == [y \in DOMAIN m \cup {x} |-> IF y = x THEN v ELSE m[y]]
MapDel(m, x) == [y \in DOMAIN m \ {x} |-> m[y]]

StoredKey(json, path) == [json |-> json, path |-> path]

----------------------------------------------------------------------------
(* SecretStore::save.                                                      *)

\* save as it would be if it wrote the version number of the Secret Storage
\* Definition
KeyFileValue_v3(u, encryptedJson) ==
    JObj([crypto |-> read_string(encryptedJson, JNull),
          id |-> JStr(toUUID(u)),
          version |-> JInt(3)])

\* save as it would be if it left out the id
KeyFileValue_noId(u, encryptedJson) ==
    JObj([crypto |-> read_string(encryptedJson, JNull),
          version |-> JInt(2)])

\* the JSON object save writes for one entry
KeyFileValue(u, encryptedJson) ==
    JObj([crypto |-> read_string(encryptedJson, JNull),
          id |-> JStr(toUUID(u)),
          version |-> JInt(2)])

\* one round of the loop of save, for entry u into directory dir
SaveOne(st, u, dir) ==
    LET filename == Path(dir, toUUID(u))
        old == st.keys[u].path
        written == [st.files EXCEPT
                      ![filename] = write_string(KeyFileValue(u, st.keys[u].json), TRUE)]
        removed == IF old # NoPath /\ old # filename
                   THEN [written EXCEPT ![old] = NoFile]
                   ELSE written
    IN [keys |-> [st.keys EXCEPT ![u] = StoredKey(st.keys[u].json, filename)],
        files |-> removed]

RECURSIVE SaveLoop(_, _, _, _)
SaveLoop(st, order, i, dir) ==
    IF i > Len(order) THEN st
    ELSE SaveLoop(SaveOne(st, order[i], dir), order, i + 1, dir)

\* save(_keysPath): the entries and the files afterwards; ioError is
\* create_directories failing, which throws before anything is written
save(ks, files, dir, order, ioError) ==
    IF ioError THEN [keys |-> ks, files |-> files, err |-> TRUE]
    ELSE LET st == SaveLoop([keys |-> ks, files |-> files], order, 1, dir)
         IN [keys |-> st.keys, files |-> st.files, err |-> FALSE]

----------------------------------------------------------------------------
(* SecretStore::load.                                                      *)

\* std::stoi of the text of a "Version" member; -1 stands for its exception
stoi(t) ==
    IF t = Lit("2") THEN 2 ELSE IF t = Lit("3") THEN 3 ELSE -1

\* fromUUID: the id of a UUID text.  For text that is no UUID the library
\* either throws or returns the zero id, depending on its version:
\* zeroOnBad selects which.  -1 stands for the exception.
fromUUID(t, zeroOnBad) ==
    IF t.k = "uuid" THEN t.uuidOf ELSE IF zeroOnBad THEN ZeroUuid ELSE -1

\* line 117 as it would be if it looked for the lowercase member only
VersionOf_lowercaseOnly(o) ==
    IF "version" \in DOMAIN o.obj
    THEN (IF IsInt(o.obj["version"]) THEN o.obj["version"].int ELSE -1)
    ELSE 0

\* line 117: the version of a key-file object; -1 stands for an exception of
\* get_str, stoi or get_int
VersionOf(o) ==
    IF "Version" \in DOMAIN o.obj
    THEN (IF IsStr(o.obj["Version"]) THEN stoi(o.obj["Version"].str) ELSE -1)
    ELSE IF "version" \in DOMAIN o.obj
    THEN (IF IsInt(o.obj["version"]) THEN o.obj["version"].int ELSE -1)
    ELSE 0

\* the body of the loop of load for one regular file; st.v is the js::mValue
\* declared before the loop, which read_string fills
LoadOne(st, path, zeroOnBad) ==
    LET v == read_string(st.files[path], st.v)
        version == VersionOf(v)
        id == Member(v, "id")
        uuid == fromUUID(id.str, zeroOnBad)
    IN  IF ~IsObj(v) THEN [st EXCEPT !.v = v]
        ELSE IF version = -1 THEN [st EXCEPT !.v = v, !.err = TRUE]
        ELSE IF version # 2 THEN [st EXCEPT !.v = v]
        ELSE IF ~IsStr(id) \/ uuid = -1 THEN [st EXCEPT !.v = v, !.err = TRUE]
        ELSE [st EXCEPT !.v = v,
                        !.keys = MapPut(st.keys, uuid,
                                        StoredKey(write_string(Member(v, "crypto"), FALSE),
                                                  path))]

RECURSIVE LoadLoop(_, _, _, _)
LoadLoop(st, order, i, zeroOnBad) ==
    IF i > Len(order) \/ st.err THEN st
    ELSE LoadLoop(LoadOne(st, order[i], zeroOnBad), order, i + 1, zeroOnBad)

\* load(_keysPath) over the files of the directory in the order the directory
\* iterator yields them: the entries afterwards, and whether it threw
load(ks, files, order, zeroOnBad) ==
    LET st == LoadLoop([keys |-> ks, files |-> files, v |-> JNull, err |-> FALSE],
                       order, 1, zeroOnBad)
    IN [keys |-> st.keys, err |-> st.err]

----------------------------------------------------------------------------
(* The operations of SecretStore, as functions of the state.               *)

NoBytes == [k |-> "none"]

\* the passphrase callback: it returns a passphrase or fails
ProviderFails == "<fails>"
Providers == Passphrases \cup {ProviderFails}

\* secret as it would be if it asked for the passphrase before it looked
\* into the cache
secret_asksFirst(ks, ch, uuid, provider) ==
    IF uuid \in DOMAIN ch
    THEN [res |-> ch[uuid], calls |-> 1, cache |-> ch]
    ELSE IF uuid \notin DOMAIN ks
    THEN [res |-> EmptyBytes, calls |-> 1, cache |-> ch]
    ELSE IF provider = ProviderFails
    THEN [res |-> Throw, calls |-> 1, cache |-> ch]
    ELSE LET key == decrypt(ks[uuid].json, provider)
         IN [res |-> key, calls |-> 1,
             cache |-> IF key # Throw /\ key # EmptyBytes
                       THEN MapPut(ch, uuid, key)
                       ELSE ch]

\* secret as it would be without the test key.empty() before it caches
secret_cachesUnchecked(ks, ch, uuid, provider) ==
    IF uuid \in DOMAIN ch
    THEN [res |-> ch[uuid], calls |-> 0, cache |-> ch]
    ELSE IF uuid \notin DOMAIN ks
    THEN [res |-> EmptyBytes, calls |-> 0, cache |-> ch]
    ELSE IF provider = ProviderFails
    THEN [res |-> Throw, calls |-> 1, cache |-> ch]
    ELSE LET key == decrypt(ks[uuid].json, provider)
         IN [res |-> key, calls |-> 1,
             cache |-> IF key # Throw THEN MapPut(ch, uuid, key) ELSE ch]

\* secret(_uuid, _pass): the value returned (Throw: an exception leaves the
\* call), how often the callback was invoked, and the cache afterwards
secret(ks, ch, uuid, provider) ==
    IF uuid \in DOMAIN ch
    THEN [res |-> ch[uuid], calls |-> 0, cache |-> ch]
    ELSE IF uuid \notin DOMAIN ks
    THEN [res |-> EmptyBytes, calls |-> 0, cache |-> ch]
    ELSE IF provider = ProviderFails
    THEN [res |-> Throw, calls |-> 1, cache |-> ch]
    ELSE LET key == decrypt(ks[uuid].json, provider)
         IN [res |-> key, calls |-> 1,
             cache |-> IF key # Throw /\ key # EmptyBytes
                       THEN MapPut(ch, uuid, key)
                       ELSE ch]

\* importSecret(_s, _pass): r is the id h128::random() returns, salt and iv
\* the random bytes encrypt draws, order the iteration order of save
importSecret(ks, ch, files, s, pass, r, salt, iv, order, ioError) ==
    LET cached == MapPut(ch, r, s)
        added == MapPut(ks, r, StoredKey(encrypt(s, pass, salt, iv), NoPath))
        sv == save(added, files, DefaultDir, order, ioError)
    IN [cache |-> cached, keys |-> sv.keys, files |-> sv.files, err |-> sv.err]

\* kill as it would be without m_cached.erase(_uuid)
kill_keepsCache(ks, ch, files, uuid, ioError) ==
    LET prior == IF uuid \in DOMAIN ks THEN ks[uuid].path ELSE NoPath
        throws == ioError /\ prior # NoPath
    IN [cache |-> ch,
        keys |-> IF throws THEN ks ELSE MapDel(ks, uuid),
        files |-> IF throws \/ prior = NoPath THEN files
                  ELSE [files EXCEPT ![prior] = NoFile],
        err |-> throws,
        prior |-> prior]

\* kill(_uuid); ioError is boost::filesystem::remove throwing
kill(ks, ch, files, uuid, ioError) ==
    LET prior == IF uuid \in DOMAIN ks THEN ks[uuid].path ELSE NoPath
        throws == ioError /\ prior # NoPath
    IN [cache |-> MapDel(ch, uuid),
        keys |-> IF throws THEN ks ELSE MapDel(ks, uuid),
        files |-> IF throws \/ prior = NoPath THEN files
                  ELSE [files EXCEPT ![prior] = NoFile],
        err |-> throws,
        prior |-> prior]

\* clearCache(): the cache afterwards
clearCache(ch) == EmptyMap

----------------------------------------------------------------------------
(* The key files other programs may have left in the default directory.    *)

ForeignCrypto == read_string(encrypt(Sec(1), "a", Rnd(1), Rnd(1)), JNull)
ForeignId == JStr(toUUID(ForeignUuid))

WellFormedV2 == [crypto |-> ForeignCrypto, id |-> ForeignId, version |-> JInt(2)]
BadUuidObject ==
    [crypto |-> ForeignCrypto, id |-> JStr(BadUuidText), version |-> JInt(2)]

ForeignObjects ==
    { WellFormedV2,
      [crypto |-> ForeignCrypto, id |-> ForeignId, version |-> JInt(3)],
      [crypto |-> ForeignCrypto, id |-> ForeignId, version |-> JInt(1)],
      [crypto |-> ForeignCrypto, id |-> ForeignId, version |-> JStr(Lit("2"))],
      [crypto |-> ForeignCrypto, id |-> ForeignId, Version |-> JStr(Lit("2"))],
      [crypto |-> ForeignCrypto, id |-> ForeignId, Version |-> JStr(Lit("3"))],
      [crypto |-> ForeignCrypto, id |-> ForeignId, Version |-> JInt(2)],
      [crypto |-> ForeignCrypto, id |-> ForeignId, Version |-> JInt(3)],
      [crypto |-> ForeignCrypto, id |-> ForeignId],
      [crypto |-> ForeignCrypto, version |-> JInt(2)],
      [crypto |-> ForeignCrypto, id |-> JInt(7), version |-> JInt(2)],
      BadUuidObject,
      [id |-> ForeignId, version |-> JInt(2)] }

ForeignFiles ==
    {write_string(JObj(m), TRUE) : m \in ForeignObjects}
    \cup {write_string(JArray, TRUE),           \* JSON, but no object
          BrokenText(NoPartial),                \* no JSON at all
          BrokenText(JObj(WellFormedV2))}       \* a key file cut short of its last brace

----------------------------------------------------------------------------
(* The store as a state machine: one action per operation.  last holds the *)
(* result of the operation until the caller has taken it (Return).         *)

Op(op, uuid, pass, res, calls, ok, dir, prior) ==
    [op |-> op, uuid |-> uuid, pass |-> pass, res |-> res, calls |-> calls,
     ok |-> ok, dir |-> dir, prior |-> prior]

NoOp == Op("none", -1, "", NoBytes, 0, TRUE, "", NoPath)

\* no call is in progress and the caller holds no result
Idle == last = NoOp

\* ids are numbered in the order h128::random() hands them out: a 128-bit
\* random id is taken never to repeat an id seen before
NextUuid == Cardinality(DOMAIN imported) + 1

\* SecretStore::SecretStore(): load() into an empty store.  An exception of
\* load leaves no object.
Construct ==
    /\ Idle
    /\ \E order \in Orders(FilesIn(fs, DefaultDir)) :
         LET r == load(EmptyMap, fs, order, lenient)
         IN /\ up' = ~r.err
            /\ keys' = IF r.err THEN EmptyMap ELSE r.keys
            /\ cache' = EmptyMap
            /\ last' = Op("construct", -1, "", NoBytes, 0, ~r.err, DefaultDir, NoPath)
            /\ UNCHANGED <<fs, imported, lenient, codec, sig>>

\* load(_keysPath) on the store
Load(dir) ==
    /\ up /\ Idle
    /\ \E order \in Orders(FilesIn(fs, dir)) :
        LET r == load(keys, fs, order, lenient)
        IN /\ keys' = r.keys
           /\ last' = Op("load", -1, "", NoBytes, 0, ~r.err, dir, NoPath)
           /\ UNCHANGED <<up, cache, fs, imported, lenient, codec, sig>>

\* save(_keysPath) on the store
Save(dir) ==
    /\ up /\ Idle
    /\ \E order \in Orders(DOMAIN keys), ioError \in BOOLEAN :
        LET r == save(keys, fs, dir, order, ioError)
        IN /\ keys' = r.keys
           /\ fs' = r.files
           /\ last' = Op("save", -1, "", NoBytes, 0, ~r.err, dir, NoPath)
           /\ UNCHANGED <<up, cache, imported, lenient, codec, sig>>

Secret(uuid, provider) ==
    /\ up /\ Idle
    /\ LET r == secret(keys, cache, uuid, provider)
       IN /\ cache' = r.cache
          /\ last' = Op("secret", uuid, provider, r.res, r.calls, r.res # Throw, "", NoPath)
    /\ UNCHANGED <<up, keys, fs, imported, lenient, codec, sig>>

ImportSecret(s, pass, salt, iv) ==
    /\ up /\ Idle
    /\ NextUuid \in UUIDs
    /\ \E ioError \in BOOLEAN, order \in Orders(DOMAIN keys \cup {NextUuid}) :
        LET r == importSecret(keys, cache, fs, s, pass, NextUuid, salt, iv, order, ioError)
        IN /\ cache' = r.cache
           /\ keys' = r.keys
           /\ fs' = r.files
           /\ last' = Op("importSecret", NextUuid, pass, s, 0, ~r.err, DefaultDir, NoPath)
           /\ imported' = MapPut(imported, NextUuid, [secret |-> s, pass |-> pass])
           /\ UNCHANGED <<up, lenient, codec, sig>>

Kill(uuid) ==
    /\ up /\ Idle
    /\ \E ioError \in BOOLEAN :
        LET r == kill(keys, cache, fs, uuid, ioError)
        IN /\ cache' = r.cache
           /\ keys' = r.keys
           /\ fs' = r.files
           /\ last' = Op("kill", uuid, "", NoBytes, 0, ~r.err, "", r.prior)
           /\ UNCHANGED <<up, imported, lenient, codec, sig>>

ClearCache ==
    /\ up /\ Idle
    /\ cache' = clearCache(cache)
    /\ last' = Op("clearCache", -1, "", NoBytes, 0, TRUE, "", NoPath)
    /\ UNCHANGED <<up, keys, fs, imported, lenient, codec, sig>>

\* the caller takes the result of the call and drops it
Return ==
    /\ ~Idle
    /\ last' = NoOp
    /\ UNCHANGED <<up, keys, cache, fs, imported, lenient, codec, sig>>

KnownUuids == UUIDs \cup {ZeroUuid, ForeignUuid}

CodecRun(phase, s, pass, json, tried, out) ==
    [phase |-> phase, secret |-> s, pass |-> pass, json |-> json,
     tried |-> tried, out |-> out]
CodecIdle == CodecRun("idle", NoBytes, "", NoBytes, "", NoBytes)

RawSig(ok, r, s, recid) == [ok |-> ok, r |-> r, s |-> s, recid |-> recid]
Signature(r, s, v) == [r |-> r, s |-> s, v |-> v]
SigRun(phase, raw, out) == [phase |-> phase, raw |-> raw, out |-> out]
SigIdle == SigRun("idle", RawSig(FALSE, 0, 0, 0), Signature(0, 0, 0))

Next ==
    \/ Construct
    \/ \E dir \in Dirs : Load(dir)
    \/ \E dir \in Dirs : Save(dir)
    \/ \E uuid \in KnownUuids, provider \in Providers : Secret(uuid, provider)
    \/ \E s \in StoreSecrets, pass \in Passphrases, salt \in StoreRandom,
          iv \in StoreRandom : ImportSecret(s, pass, salt, iv)
    \/ \E uuid \in KnownUuids : Kill(uuid)
    \/ ClearCache
    \/ Return

\* Before the first store is constructed the default directory holds at most
\* one file of another program.  lenient is how the library's fromUUID treats
\* text that is no UUID; it decides something only for a file with such an id.
Init ==
    /\ up = FALSE
    /\ keys = EmptyMap
    /\ cache = EmptyMap
    /\ \E x \in ForeignFiles \cup {NoFile} :
          /\ fs = [p \in AllPaths |->
                     IF p = Path(DefaultDir, ForeignName) THEN x ELSE NoFile]
          /\ lenient \in (IF x = write_string(JObj(BadUuidObject), TRUE)
                          THEN BOOLEAN ELSE {FALSE})
    /\ last = NoOp
    /\ imported = EmptyMap
    /\ codec = CodecIdle
    /\ sig = SigIdle

Spec == Init /\ [][Next]_vars

----------------------------------------------------------------------------
(* CodecSpec: encrypt and decrypt as pure functions.                       *)

\* encrypt(secret, pass) with the salt and iv the random generator returns
Encrypt(salt, iv) ==
    /\ codec.phase = "input"
    /\ codec' = CodecRun("encrypted", codec.secret, codec.pass,
                         encrypt(codec.secret, codec.pass, salt, iv), "", NoBytes)
    /\ UNCHANGED <<up, keys, cache, fs, last, imported, lenient, sig>>

\* decrypt(json, tried) of the text encrypt returned
Decrypt(tried) ==
    /\ codec.phase = "encrypted"
    /\ codec' = CodecRun("decrypted", codec.secret, codec.pass, codec.json, tried,
                         decrypt(codec.json, tried))
    /\ UNCHANGED <<up, keys, cache, fs, last, imported, lenient, sig>>

StoreIdle ==
    /\ up = FALSE
    /\ keys = EmptyMap
    /\ cache = EmptyMap
    /\ fs = [p \in AllPaths |-> NoFile]
    /\ last = NoOp
    /\ imported = EmptyMap
    /\ lenient = FALSE

CodecInit ==
    /\ StoreIdle
    /\ sig = SigIdle
    /\ \E s \in Secrets, pass \in Passphrases :
          codec = CodecRun("input", s, pass, NoBytes, "", NoBytes)

CodecNext ==
    \/ \E salt \in RandomBytes, iv \in RandomBytes : Encrypt(salt, iv)
    \/ \E tried \in Passphrases : Decrypt(tried)

CodecSpec == CodecInit /\ [][CodecNext]_vars

----------------------------------------------------------------------------
(* SignSpec: dev::sign over every raw signature of the primitive.          *)

\* the group order.  TLC's integers are 32 bits wide, so the 256-bit order of
\* secp256k1 is scaled down to a small odd prime; sign only compares with n/2
\* and subtracts from n.
c_secp256k1n == 13
s_max == c_secp256k1n

\* v ^ 1 on a byte
Xor1(v) == IF v % 2 = 0 THEN v + 1 ELSE v - 1

\* SignatureStruct::isValid
isValid(ss) == ss.v <= 1 /\ ss.r > 0 /\ ss.s > 0 /\ ss.r < s_max /\ ss.s < s_max

\* dev::sign, from what secp256k1_ecdsa_sign_recoverable and
\* ..._serialize_compact produced: raw.ok is the primitive's return value
sign(raw) ==
    IF ~raw.ok THEN Signature(0, 0, 0)
    ELSE IF raw.s > c_secp256k1n \div 2
    THEN Signature(raw.r, c_secp256k1n - raw.s, Xor1(raw.recid))
    ELSE Signature(raw.r, raw.s, raw.recid)

\* the raw signatures of the primitive: 0 < r < n, 0 < s < n, recovery id 0..3
RawSigs ==
    {RawSig(TRUE, r, s, recid) : r \in 1..(c_secp256k1n - 1),
                                 s \in 1..(c_secp256k1n - 1), recid \in 0..3}
    \cup {RawSig(FALSE, 0, 0, 0)}

Sign(raw) ==
    /\ sig.phase = "idle"
    /\ sig' = SigRun("signed", raw, sign(raw))
    /\ UNCHANGED <<up, keys, cache, fs, last, imported, lenient, codec>>

SignInit == StoreIdle /\ codec = CodecIdle /\ sig = SigIdle

SignNext == \E raw \in RawSigs : Sign(raw)

SignSpec == SignInit /\ [][SignNext]_vars

----------------------------------------------------------------------------
(* The claims.                                                             *)

\* the orders in which a directory iterator can yield the default directory
DefaultOrders == Orders(FilesIn(fs, DefaultDir))

\* a store constructed now over the default directory
Reopened(order) == load(EmptyMap, fs, order, lenient)

\* C1 (Spec): once importSecret(s, p) has returned uuid, a store constructed
\* over the same directory, in whatever order it reads the files, loads
\* without error, holds uuid, and its secret(uuid, provider of p) is s.
StorePersistence ==
    (last.op = "importSecret" /\ last.ok)
        => \A order \in DefaultOrders :
              LET r == Reopened(order)
              IN /\ ~r.err
                 /\ last.uuid \in DOMAIN r.keys
                 /\ secret(r.keys, EmptyMap, last.uuid, last.pass).res = last.res

\* a store that read its entry from disk decrypted the imported secret
StorePersistenceWitness ==
    /\ last.op = "secret" /\ last.calls = 1
    /\ last.uuid \in DOMAIN imported
    /\ last.res # EmptyBytes
    /\ last.res = imported[last.uuid].secret
    /\ keys[last.uuid].json.pretty = FALSE

\* C2 (Spec): after kill(uuid) has returned, secret(uuid, any provider) is
\* empty, no file is left at the entry's prior backing path, and a store
\* constructed over the same directory does not hold uuid.
KillIsIrreversible ==
    (last.op = "kill" /\ last.ok)
        => /\ last.uuid \notin DOMAIN keys
           /\ \A provider \in Providers :
                 secret(keys, cache, last.uuid, provider).res = EmptyBytes
           /\ last.prior # NoPath => fs[last.prior] = NoFile
           /\ \A order \in DefaultOrders :
                 LET r == Reopened(order)
                 IN ~r.err => last.uuid \notin DOMAIN r.keys

\* text is a key file for uuid u that this reader takes: a JSON object with
\* the UUID text of u as id, an object as crypto, and integer version 2
WellFormedKeyFile(text, u) ==
    /\ text.k = "json"
    /\ IsObj(text.text)
    /\ Member(text.text, "id") = JStr(toUUID(u))
    /\ IsObj(Member(text.text, "crypto"))
    /\ "Version" \notin DOMAIN text.text.obj
    /\ Member(text.text, "version") = JInt(2)

\* C3 (Spec): load, whatever the directory holds, ends without an error and
\* leaves one entry per well-formed key file, backed by that file, and none
\* for any other file.
LoadSkipsMalformed ==
    last.op = "construct"
        => /\ last.ok
           /\ \A u \in DOMAIN keys : WellFormedKeyFile(fs[keys[u].path], u)
           /\ \A p \in FilesIn(fs, DefaultDir) : \A u \in KnownUuids :
                 WellFormedKeyFile(fs[p], u) => u \in DOMAIN keys

\* text is a key-file object whose id is the UUID text of u
KeyFileFor(text, u) ==
    /\ text.k = "json"
    /\ IsObj(text.text)
    /\ Member(text.text, "id") = JStr(toUUID(u))

\* keys holds the entry of u that load makes of the file at path p
Inserted(p, u) ==
    /\ u \in DOMAIN keys
    /\ keys[u].json = write_string(Member(fs[p].text, "crypto"), FALSE)

\* C7 as claimed (Spec): load inserts the entry of a key file whose Version
\* or version member is the integer 3 or 2, and skips every other version.
ReaderAcceptsVersion2And3 ==
    last.op = "construct"
        => \A p \in FilesIn(fs, DefaultDir) : \A u \in KnownUuids :
            \A name \in {"Version", "version"} : \A n \in 1..3 :
              (KeyFileFor(fs[p], u) /\ Member(fs[p].text, name) = JInt(n))
                  => (last.ok /\ (Inserted(p, u) <=> n \in {2, 3}))

\* the decimal text of a version number
Digits(n) == IF n = 2 THEN Lit("2") ELSE Lit("3")

\* C7 as amended (Spec): load inserts the entry of a key file whose version
\* reads as 2, which is a lowercase version member holding the integer 2 or,
\* taking precedence, a capitalized Version member holding text that parses
\* as 2; a file whose version reads as another number, 3 included, is skipped.
ReaderAcceptsVersion2 ==
    last.op = "construct"
        => \A p \in FilesIn(fs, DefaultDir) : \A u \in KnownUuids :
             KeyFileFor(fs[p], u)
                => /\ \A n \in 1..3 :
                        ("Version" \notin DOMAIN fs[p].text.obj
                           /\ Member(fs[p].text, "version") = JInt(n))
                            => (last.ok /\ (Inserted(p, u) <=> n = 2))
                   /\ \A n \in 2..3 :
                        Member(fs[p].text, "Version") = JStr(Digits(n))
                            => (last.ok /\ (Inserted(p, u) <=> n = 2))

\* a file with the capitalized member Version: "2" was loaded
ReaderWitness ==
    /\ last.op = "construct" /\ last.ok
    /\ \E p \in FilesIn(fs, DefaultDir) :
          /\ KeyFileFor(fs[p], ForeignUuid)
          /\ Member(fs[p].text, "Version") = JStr(Lit("2"))
          /\ Inserted(p, ForeignUuid)

\* the file of entry u is the JSON object with exactly the members crypto
\* (the parsed encryptedJson), id (the UUID text of u) and version v
WrittenAs(u, v) ==
    LET f == fs[keys[u].path]
    IN /\ keys[u].path # NoPath
       /\ f.k = "json"
       /\ IsObj(f.text)
       /\ DOMAIN f.text.obj = {"crypto", "id", "version"}
       /\ f.text.obj["crypto"] = read_string(keys[u].json, JNull)
       /\ f.text.obj["id"] = JStr(toUUID(u))
       /\ f.text.obj["version"] = JInt(v)

\* C8 as claimed (Spec): every key file save has written holds exactly
\* crypto, id and the lowercase version with the integer 3.
WriterEmitsVersion3 ==
    (last.op \in {"save", "importSecret"} /\ last.ok)
        => \A u \in DOMAIN keys : WrittenAs(u, 3)

\* C8 as amended (Spec): every key file save has written holds exactly
\* crypto, id and the lowercase version with the integer 2.
WriterEmitsVersion2 ==
    (last.op \in {"save", "importSecret"} /\ last.ok)
        => \A u \in DOMAIN keys : WrittenAs(u, 2)

\* save wrote the files of two entries into the other directory
WriterWitness ==
    /\ last.op = "save" /\ last.ok /\ last.dir # DefaultDir
    /\ Cardinality(DOMAIN keys) >= 2
    /\ \A u \in DOMAIN keys : keys[u].path.dir = last.dir

\* C9 (Spec): secret invokes the provider not at all when uuid is cached (it
\* returns the cached bytes) or is no entry (it returns empty), and exactly
\* once otherwise; a secret that returned bytes and an importSecret leave
\* uuid cached, and a cached uuid stays cached until clearCache, kill(uuid)
\* or the construction of a new store.
ProviderOnlyOnCacheMiss ==
    [][ /\ last'.op = "secret"
            => /\ last'.calls = IF last'.uuid \in DOMAIN cache
                                   \/ last'.uuid \notin DOMAIN keys
                                THEN 0 ELSE 1
               /\ last'.uuid \in DOMAIN cache => last'.res = cache[last'.uuid]
               /\ (last'.uuid \notin DOMAIN cache /\ last'.uuid \notin DOMAIN keys)
                     => last'.res = EmptyBytes
               /\ last'.res \notin {EmptyBytes, Throw}
                     => last'.uuid \in DOMAIN cache'
        /\ last'.op = "importSecret" => last'.uuid \in DOMAIN cache'
        /\ \A u \in DOMAIN cache :
              u \notin DOMAIN cache'
                 => \/ last'.op \in {"clearCache", "construct"}
                    \/ last'.op = "kill" /\ last'.uuid = u
      ]_vars

\* secret answered from the cache, without the provider
CacheHitWitness ==
    /\ last.op = "secret" /\ last.calls = 0
    /\ last.res # EmptyBytes
    /\ last.uuid \in DOMAIN cache

\* C10 (Spec): after every operation, those that end in an error included,
\* every uuid in cache is an entry of keys.
CacheSubsetOfKeys == DOMAIN cache \subseteq DOMAIN keys

\* an operation ended in an error while a secret was cached
CacheSubsetWitness ==
    /\ ~last.ok
    /\ last.op \in {"importSecret", "kill", "save", "load", "secret"}
    /\ cache # EmptyMap

\* a call of secret for an imported uuid that is not cached, with a provider
\* that fails or yields another passphrase than the one of the import
FailedAttempt ==
    /\ last'.op = "secret" /\ last'.calls = 1
    /\ last'.uuid \in DOMAIN imported
    /\ last'.pass # imported[last'.uuid].pass

\* a later call of secret with the passphrase of the import returns the
\* imported secret
Retryable ==
    secret(keys', cache', last'.uuid, imported[last'.uuid].pass).res
        = imported[last'.uuid].secret

\* C4 as claimed (Spec): a call of secret whose provider yields a wrong
\* passphrase or fails yields the empty byte sequence, leaves cache and keys
\* as they were, and a later call with the right passphrase returns the secret.
FailedDecryptYieldsEmpty ==
    [][ FailedAttempt
          => /\ last'.res = EmptyBytes
             /\ cache' = cache /\ keys' = keys
             /\ Retryable ]_vars

\* C4 as amended (Spec): a call of secret whose provider yields a wrong
\* passphrase yields the empty byte sequence, and one whose provider fails
\* yields no value (the failure leaves secret as an exception); in both cases
\* cache and keys stay as they were and a later call with the right
\* passphrase returns the secret.
FailedDecryptLeavesStoreUnchanged ==
    [][ FailedAttempt
          => /\ last'.res = IF last'.pass = ProviderFails THEN Throw ELSE EmptyBytes
             /\ cache' = cache /\ keys' = keys
             /\ Retryable ]_vars

\* secret was given a wrong passphrase for a non-empty imported secret
FailedDecryptWitness ==
    /\ last.op = "secret" /\ last.calls = 1
    /\ last.uuid \in DOMAIN imported
    /\ last.pass \in Passphrases \ {imported[last.uuid].pass}
    /\ imported[last.uuid].secret # EmptyBytes
    /\ last.res = EmptyBytes
    /\ last.uuid \notin DOMAIN cache


\* C5 (CodecSpec): decrypt(encrypt(s, p), p) = s for every secret s and
\* passphrase p, whatever salt and iv encrypt drew.
EncryptDecryptRoundTrip ==
    (codec.phase = "decrypted" /\ codec.tried = codec.pass)
        => codec.out = codec.secret

\* a non-empty secret came back from decrypt under the passphrase of encrypt
RoundTripWitness ==
    /\ codec.phase = "decrypted"
    /\ codec.tried = codec.pass
    /\ codec.secret # EmptyBytes
    /\ codec.out = codec.secret

\* C6 (SignSpec): every signature sign returns, for every raw (r, s, recovery
\* id in 0..3) of the primitive and when the primitive fails, has s <= n/2,
\* v in {0, 1} and isValid().
LowSInvariant ==
    sig.phase = "signed"
        => /\ sig.out.s <= c_secp256k1n \div 2
           /\ sig.out.v \in {0, 1}
           /\ isValid(sig.out)

\* the file at the backing path of entry u exists and decodes to the entry:
\* a JSON object whose crypto is the parsed encryptedJson and whose id is the
\* UUID text of u
BackedBy(u) ==
    LET f == fs[keys[u].path]
    IN /\ keys[u].path # NoPath
       /\ f.k = "json"
       /\ IsObj(f.text)
       /\ Member(f.text, "crypto") = read_string(keys[u].json, JNull)
       /\ Member(f.text, "id") = JStr(toUUID(u))

\* C11 (Spec): after every completed operation of the store, those that end
\* in an I/O error included, every entry of keys has a non-empty backing path
\* naming an existing file that decodes to that entry.
BackingFileInvariant ==
    up => \A u \in DOMAIN keys : BackedBy(u)

\* the MAC check of decrypt(v, pass) is reached and succeeds: the stored mac
\* is the keccak of the last 16 bytes of the derived key and the ciphertext
MacVerified(v, pass) ==
    LET ov == read_string(v, JNull)
        kdf == Member(ov, "kdf")
        params == Member(ov, "kdfparams")
        prf == Member(params, "prf")
        c == Member(params, "c")
        salt == Member(params, "salt")
        dkl == Member(params, "dklen")
        ct == Member(ov, "ciphertext")
        macStr == Member(ov, "mac")
    IN /\ IsObj(ov)
       /\ IsStr(kdf) /\ kdf.str = Lit("pbkdf2")
       /\ IsObj(params)
       /\ IsStr(prf) /\ prf.str = Lit("hmac-sha256")
       /\ IsInt(c) /\ IsStr(salt) /\ IsInt(dkl)
       /\ IsStr(ct) /\ IsStr(macStr)
       /\ fromHex(macStr.str)
             = MacOf(pbkdf2(pass, fromHex(salt.str), c.int, dkl.int),
                     fromHex(ct.str))

\* this step puts a value for u into the cache
CacheInsertion(u) ==
    /\ u \in DOMAIN cache'
    /\ u \notin DOMAIN cache \/ cache'[u] # cache[u]

\* the step is a call of secret for u that ran decrypt on the entry of u and
\* passed its MAC check under the passphrase the provider supplied
MacCheckedBySecret(u) ==
    /\ last'.op = "secret" /\ last'.uuid = u /\ last'.calls = 1
    /\ u \in DOMAIN keys
    /\ last'.pass \in Passphrases
    /\ MacVerified(keys[u].json, last'.pass)

\* every cached value is what decrypt makes of the entry's encryptedJson
\* under some passphrase
CachedIsPlaintext ==
    \A u \in DOMAIN cache' :
        /\ u \in DOMAIN keys'
        /\ \E pass \in Passphrases : decrypt(keys'[u].json, pass) = cache'[u]

\* C12 as claimed (Spec): every insertion into cache happens in an operation
\* that has passed the MAC check of the entry's encryptedJson under the
\* supplied passphrase, and every cached value is the plaintext of the
\* encryptedJson in keys for that uuid.
OnlyMacVerifiedCached ==
    [][ /\ \A u \in KnownUuids : CacheInsertion(u) => MacCheckedBySecret(u)
        /\ CachedIsPlaintext ]_vars

\* C12 as amended (Spec): secret inserts into cache only after decrypt has
\* passed the MAC check under the supplied passphrase; importSecret inserts
\* the secret it was given with no MAC check, before it encrypts it into the
\* entry of the same uuid; nothing else inserts.  Every cached value is the
\* plaintext of the encryptedJson in keys for that uuid.
OnlyVerifiedOrImportedCached ==
    [][ /\ \A u \in KnownUuids :
              CacheInsertion(u)
                 => \/ /\ MacCheckedBySecret(u)
                       /\ cache'[u] = decrypt(keys[u].json, last'.pass)
                    \/ /\ last'.op = "importSecret" /\ last'.uuid = u
                       /\ cache'[u] = last'.res
                       /\ u \in DOMAIN keys'
                       /\ decrypt(keys'[u].json, last'.pass) = cache'[u]
        /\ CachedIsPlaintext ]_vars

\* secret decrypted and cached the secret of a key file it found on disk
MacVerifiedWitness ==
    /\ last.op = "secret" /\ last.calls = 1
    /\ last.uuid = ForeignUuid
    /\ ForeignUuid \in DOMAIN cache
    /\ cache[ForeignUuid] = Sec(1)
    /\ MacVerified(keys[ForeignUuid].json, last.pass)

====
